---- MODULE Spec2Model ----
(***************************************************************************)
(* Live capture and post-capture validation of the KYC package:            *)
(*   - the selfie view (Selfie.svelte) and its face detection loop         *)
(*     (services/face-detection),                                          *)
(*   - the document capture view (DocumentPhoto.svelte) and its document   *)
(*     detection loop (services/document-detection),                       *)
(*   - validateDocumentImage (services/document-detection),                *)
(*   - the check view (CheckDocument.svelte) and its validation feedback.  *)
(*                                                                         *)
(* JavaScript runs one task at a time.  An action of this module is one    *)
(* task together with the microtasks it queues: the continuation of an     *)
(* await, the synchronous calls it makes, and the Svelte flush that the    *)
(* task's assignments schedule.  Sequential code is written as a chain of  *)
(* LET steps over records.                                                 *)
(***************************************************************************)
EXTENDS Integers, FiniteSets, Sequences, TLC

VARIABLES
  views,      \* the capture views the page has mounted, named by their loops
  selfie,     \* the component state of one Selfie view instance
  doc,        \* the component state of one DocumentPhoto view instance
  loop,       \* loop[l]: the closure state of detection loop l and its timer
  fired,      \* history: fired[l] iff the last step called onResult of loop l
  discarded,  \* history: discarded[l] iff a result of loop l arrived after stop
  trueSuffix, \* history: length of the all-true suffix of the results the
              \* selfie handler has processed
  sawFailing, \* history: some processed result failed the composite predicate
  lateCall,   \* history: a handler was called after the capture had fired
  lateResult, \* history: a result was handed to the selfie handler while
              \* isCapturing was true
  calls,      \* calls[c]: the validateDocumentImage call of caller c
  burst,      \* history: per image, the passes and outcomes of overlapping calls
  images,     \* images[i]: whether still image i loads, whether scanDocument
              \* throws on it, and what a scan of it finds
  check,      \* the component state of one check view instance
  faceModels, \* the module variables modelsLoaded and modelsLoading
  loaders,    \* loaders[c]: the loadFaceDetectionModels call of caller c
  probe       \* the last detector call made directly: function, path, result

vars == <<views, selfie, doc, loop, fired, discarded, trueSuffix, sawFailing,
          lateCall, lateResult, calls, burst, images, check, faceModels,
          loaders, probe>>

selfieHist == <<views, trueSuffix, sawFailing, lateCall, lateResult>>
loadVars == <<faceModels, loaders, probe>>
validateVars == <<calls, burst, images, check, loadVars>>

Loops == {"face", "doc"}

(***************************************************************************)
(* Auto-capture settings of the selfie view.                               *)
(***************************************************************************)
DETECTION_INTERVAL_MS == 250

COUNTDOWN_SECONDS == 5

FRAMES_PER_SECOND == 1000 \div DETECTION_INTERVAL_MS

REQUIRED_STABLE_FRAMES == COUNTDOWN_SECONDS * FRAMES_PER_SECOND

\* Variant with a slip: Math.floor instead of Math.ceil.
FloorDiv(a, b) == a \div b

\* Math.ceil(a / b) for an integer a and b > 0
CeilDiv(a, b) == -((-a) \div b)

(***************************************************************************)
(* Detection results.  The detectors are opaque: a call returns any of     *)
(* the results its code can build.                                         *)
(***************************************************************************)
NoFace ==
  [detected |-> FALSE, centered |-> FALSE, frontal |-> FALSE,
   properSize |-> FALSE, box |-> "null"]

FaceResults ==
  {NoFace} \cup
  {[detected |-> TRUE, centered |-> c, frontal |-> f, properSize |-> p,
    box |-> "box"] : c \in BOOLEAN, f \in BOOLEAN, p \in BOOLEAN}

NoDocument == [detected |-> FALSE, corners |-> "null", confidence |-> FALSE]

DocumentResults ==
  {NoDocument} \cup
  {[detected |-> TRUE, corners |-> "quad", confidence |-> c] : c \in BOOLEAN}

(***************************************************************************)
(* The detectors.  A frame is what one detector call meets: whether the    *)
(* video has readyState 4 (ready) and what the library call does with the  *)
(* frame (scan): it throws, finds nothing, or finds a face or a document   *)
(* with the listed measurements.  A detector returns the path it took, the *)
(* result it resolves with, and whether the library call was made          *)
(* (invoked).                                                              *)
(***************************************************************************)
FaceFrames ==
  {[ready |-> FALSE, scan |-> "none", centered |-> FALSE, frontal |-> FALSE,
    properSize |-> FALSE]} \cup
  {[ready |-> TRUE, scan |-> s, centered |-> FALSE, frontal |-> FALSE,
    properSize |-> FALSE] : s \in {"throws", "none"}} \cup
  {[ready |-> TRUE, scan |-> "face", centered |-> c, frontal |-> f,
    properSize |-> p] : c \in BOOLEAN, f \in BOOLEAN, p \in BOOLEAN}

DocFrames ==
  {[ready |-> FALSE, scan |-> "none", confidence |-> FALSE]} \cup
  {[ready |-> TRUE, scan |-> s, confidence |-> FALSE] :
     s \in {"throws", "none"}} \cup
  {[ready |-> TRUE, scan |-> "quad", confidence |-> c] : c \in BOOLEAN}

NoProbe == [fn |-> "none", path |-> "none"]

\* Variant with a slip: the catch branch returns the box found before the
\* exception.
DetectFaceCatchKeepsBox(modelsLoaded, f) ==
  IF ~modelsLoaded
  THEN [path |-> "notLoaded", invoked |-> FALSE, result |-> NoFace]
  ELSE IF ~f.ready
  THEN [path |-> "notReady", invoked |-> FALSE, result |-> NoFace]
  ELSE IF f.scan = "throws"
  THEN [path |-> "caught", invoked |-> TRUE,
        result |-> [NoFace EXCEPT !.box = "box"]]
  ELSE IF f.scan = "none"
  THEN [path |-> "noFace", invoked |-> TRUE, result |-> NoFace]
  ELSE [path |-> "face", invoked |-> TRUE,
        result |-> [detected |-> TRUE, centered |-> f.centered,
                    frontal |-> f.frontal, properSize |-> f.properSize,
                    box |-> "box"]]

\* Variant with a slip: the readyState test is missing.
DetectFaceAnyReadyState(modelsLoaded, f) ==
  IF ~modelsLoaded
  THEN [path |-> "notLoaded", invoked |-> FALSE, result |-> NoFace]
  ELSE IF f.scan = "throws"
  THEN [path |-> "caught", invoked |-> TRUE, result |-> NoFace]
  ELSE IF f.scan = "none"
  THEN [path |-> "noFace", invoked |-> TRUE, result |-> NoFace]
  ELSE [path |-> "face", invoked |-> TRUE,
        result |-> [detected |-> TRUE, centered |-> f.centered,
                    frontal |-> f.frontal, properSize |-> f.properSize,
                    box |-> "box"]]

\* detectFace: not-detected when the models are not loaded or the video is
\* not ready; otherwise faceapi.detectSingleFace runs inside try/catch.
DetectFace(modelsLoaded, f) ==
  IF ~modelsLoaded
  THEN [path |-> "notLoaded", invoked |-> FALSE, result |-> NoFace]
  ELSE IF ~f.ready
  THEN [path |-> "notReady", invoked |-> FALSE, result |-> NoFace]
  ELSE IF f.scan = "throws"
  THEN [path |-> "caught", invoked |-> TRUE, result |-> NoFace]
  ELSE IF f.scan = "none"
  THEN [path |-> "noFace", invoked |-> TRUE, result |-> NoFace]
  ELSE [path |-> "face", invoked |-> TRUE,
        result |-> [detected |-> TRUE, centered |-> f.centered,
                    frontal |-> f.frontal, properSize |-> f.properSize,
                    box |-> "box"]]

\* Variant with a slip: no try/catch, an exception of scanDocument rejects
\* the promise of detectDocument.
DetectDocumentRethrows(video, f) ==
  IF video /\ ~f.ready
  THEN [path |-> "notReady", invoked |-> FALSE, result |-> NoDocument]
  ELSE IF f.scan = "throws" \/ (~video /\ f.scan = "quad")
  THEN [path |-> "rejected", invoked |-> TRUE, result |-> NoDocument]
  ELSE IF f.scan = "none"
  THEN [path |-> "noDocument", invoked |-> TRUE, result |-> NoDocument]
  ELSE [path |-> "document", invoked |-> TRUE,
        result |-> [detected |-> TRUE, corners |-> "quad",
                    confidence |-> f.confidence]]

\* detectDocument on the source of a loop, a video element (video) or null
\* (~video); all of it runs inside try/catch.  The readyState test is made
\* on a video element only.  With a null source scanDocument is called with
\* null, and if it reports corners, 'videoWidth' in source throws.
DetectDocument(video, f) ==
  IF video /\ ~f.ready
  THEN [path |-> "notReady", invoked |-> FALSE, result |-> NoDocument]
  ELSE IF f.scan = "throws" \/ (~video /\ f.scan = "quad")
  THEN [path |-> "caught", invoked |-> TRUE, result |-> NoDocument]
  ELSE IF f.scan = "none"
  THEN [path |-> "noDocument", invoked |-> TRUE, result |-> NoDocument]
  ELSE [path |-> "document", invoked |-> TRUE,
        result |-> [detected |-> TRUE, corners |-> "quad",
                    confidence |-> f.confidence]]

(***************************************************************************)
(* Detection loops.  A loop record holds the closure variables isRunning   *)
(* and timeoutId (TRUE once a timer handle has been assigned), the pending *)
(* timer of the event loop (timer), the number of detector calls that have *)
(* been started and have not resolved (inFlight), the frame source the     *)
(* loop was created with (video, FALSE for null), and history fields:      *)
(*   stopCalls   how often the returned stop function has been called,     *)
(*   pending     the outstanding detector calls in the order they were     *)
(*               started; an entry is TRUE once the result of a call       *)
(*               started after it has been delivered,                      *)
(*   resolving   the position in pending of the call whose promise has     *)
(*               just resolved (0 outside that task),                      *)
(*   outOfOrder  a result has been delivered after the result of a call    *)
(*               started later,                                            *)
(*   last        the detector call that settled last: its frame, the path  *)
(*               it took, its result, whether it made the library call.    *)
(***************************************************************************)
NoLoop ==
  [created |-> FALSE, isRunning |-> FALSE, timeoutId |-> FALSE,
   timer |-> FALSE, inFlight |-> 0, video |-> FALSE, stopCalls |-> 0,
   pending |-> <<>>, resolving |-> 0, outOfOrder |-> FALSE,
   last |-> [path |-> "none", invoked |-> FALSE]]

\* the outstanding calls once the call at position k has resolved
Settle(pending, k) ==
  SubSeq(pending, 1, k - 1) \o SubSeq(pending, k + 1, Len(pending))

\* the outstanding calls once the result of the call at position k has been
\* delivered: the calls started before it have been overtaken
Overtake(pending, k) ==
  [i \in 1 .. Len(pending) |-> pending[i] \/ i < k]

\* Variant with a slip: the next tick is scheduled when the call starts
\* (a fixed-rate timer) instead of after it has resolved.
FaceRunDetectionOverlapping(ls) ==
  IF ~ls.isRunning THEN ls
  ELSE [ls EXCEPT !.inFlight = @ + 1, !.pending = Append(@, FALSE),
                  !.timeoutId = TRUE, !.timer = TRUE]

\* runDetection up to its await: if (!isRunning) return; detectFace(video)
\* starts.  The document loop's runDetection is the same code.
FaceRunDetectionStart(ls) ==
  IF ~ls.isRunning THEN ls
  ELSE [ls EXCEPT !.inFlight = @ + 1, !.pending = Append(@, FALSE)]

DocRunDetectionStart(ls) ==
  IF ~ls.isRunning THEN ls
  ELSE [ls EXCEPT !.inFlight = @ + 1, !.pending = Append(@, FALSE)]

\* Variant with a slip: stop only clears the timer and leaves isRunning set.
FaceStopKeepsRunning(ls) ==
  [ls EXCEPT !.timer = IF ls.timeoutId THEN FALSE ELSE @,
             !.stopCalls = @ + 1]

\* Variant with a slip: stop flips isRunning instead of clearing it.
FaceStopToggles(ls) ==
  [ls EXCEPT !.isRunning = ~@,
             !.timer = IF ls.timeoutId THEN FALSE ELSE @,
             !.stopCalls = @ + 1]

\* The stop closure: isRunning = false; if (timeoutId) clearTimeout(timeoutId).
\* clearTimeout cancels the pending timer; the variable timeoutId keeps its
\* handle.  The document loop's stop closure is the same code.
FaceStop(ls) ==
  [ls EXCEPT !.isRunning = FALSE,
             !.timer = IF ls.timeoutId THEN FALSE ELSE @,
             !.stopCalls = @ + 1]

DocStop(ls) ==
  [ls EXCEPT !.isRunning = FALSE,
             !.timer = IF ls.timeoutId THEN FALSE ELSE @,
             !.stopCalls = @ + 1]

\* createFaceDetectionLoop: isRunning = true, then runDetection() at once
CreateFaceDetectionLoop ==
  FaceRunDetectionStart([NoLoop EXCEPT !.created = TRUE, !.isRunning = TRUE])

CreateDocumentDetectionLoop ==
  DocRunDetectionStart([NoLoop EXCEPT !.created = TRUE, !.isRunning = TRUE])

(***************************************************************************)
(* The selfie view.  faceReady is the reactive declaration                 *)
(*   $: faceReady = faceDetected && faceCentered && faceFrontal            *)
(*                  && faceProperSize                                      *)
(* Svelte recomputes it in the flush that follows the task which assigned  *)
(* the flags, never inside that task: code that reads faceReady reads the  *)
(* value of the last flush.  A destroyed component is no longer flushed.   *)
(***************************************************************************)
FaceReady(v) ==
  v.faceDetected /\ v.faceCentered /\ v.faceFrontal /\ v.faceProperSize

Flush(v) ==
  IF v.destroyed THEN v ELSE [v EXCEPT !.faceReady = FaceReady(v)]

\* The state a handler works on: the view (v), the face loop (l) and the
\* history field fired (onResult has been called in this task).

\* Variant with a slip: the guard on $isDisabled and isCapturing is missing.
HandleTakePhotoUnguarded(s) ==
  IF ~s.v.cameraPhoto THEN s
  ELSE
    LET v1 == [s.v EXCEPT !.isCapturing = TRUE,
                          !.order = Append(@, "isCapturing")]
        l1 == IF v1.stopDetectionLoop THEN FaceStop(s.l) ELSE s.l
        v2 == [v1 EXCEPT !.stopDetectionLoop = FALSE,
                         !.order = IF v1.stopDetectionLoop
                                   THEN Append(@, "stop") ELSE @]
        v3 == [v2 EXCEPT !.captures = @ + 1,
                         !.order = @ \o <<"getDataUri", "goToNextStep">>]
    IN [s EXCEPT !.v = [v3 EXCEPT !.isDisabled = TRUE], !.l = l1]

\* Variant with a slip: the loop is stopped and the image taken before
\* isCapturing is set.
HandleTakePhotoFlagLast(s) ==
  IF ~s.v.cameraPhoto \/ s.v.isDisabled \/ s.v.isCapturing THEN s
  ELSE
    LET l1 == IF s.v.stopDetectionLoop THEN FaceStop(s.l) ELSE s.l
        v1 == [s.v EXCEPT !.stopDetectionLoop = FALSE,
                          !.order = IF s.v.stopDetectionLoop
                                    THEN Append(@, "stop") ELSE @]
        v2 == [v1 EXCEPT !.captures = @ + 1,
                         !.order = @ \o <<"getDataUri", "goToNextStep">>]
        v3 == [v2 EXCEPT !.isCapturing = TRUE,
                         !.order = Append(@, "isCapturing")]
    IN [s EXCEPT !.v = [v3 EXCEPT !.isDisabled = TRUE], !.l = l1]

\* handleTakePhoto: guard; isCapturing = true; stop the loop and forget it;
\* getDataUri and goToNextStep (counted by the history field captures);
\* toggleOnIsDisabled().  The history field order lists the steps of the
\* call in the order the call takes them.
HandleTakePhoto(s) ==
  IF ~s.v.cameraPhoto \/ s.v.isDisabled \/ s.v.isCapturing THEN s
  ELSE
    LET v1 == [s.v EXCEPT !.isCapturing = TRUE,
                          !.order = Append(@, "isCapturing")]
        l1 == IF v1.stopDetectionLoop THEN FaceStop(s.l) ELSE s.l
        v2 == [v1 EXCEPT !.stopDetectionLoop = FALSE,
                         !.order = IF v1.stopDetectionLoop
                                   THEN Append(@, "stop") ELSE @]
        v3 == [v2 EXCEPT !.captures = @ + 1,
                         !.order = @ \o <<"getDataUri", "goToNextStep">>]
    IN [s EXCEPT !.v = [v3 EXCEPT !.isDisabled = TRUE], !.l = l1]

\* Variant with a slip: the capture fires when stableFrames exceeds
\* REQUIRED_STABLE_FRAMES (> instead of >=).
HandleFaceDetectionResultLateFire(s, r) ==
  IF s.v.isCapturing THEN s
  ELSE
    LET v1 == [s.v EXCEPT !.faceDetected = r.detected,
                          !.faceCentered = r.centered,
                          !.faceFrontal = r.frontal,
                          !.faceProperSize = r.properSize]
    IN IF v1.faceReady
       THEN LET n  == v1.stableFrames + 1
                v2 == [v1 EXCEPT
                         !.stableFrames = n,
                         !.countdown =
                            CeilDiv(REQUIRED_STABLE_FRAMES - n, FRAMES_PER_SECOND)]
            IN IF n > REQUIRED_STABLE_FRAMES
               THEN HandleTakePhoto([s EXCEPT !.v = [v2 EXCEPT !.countdown = 0]])
               ELSE [s EXCEPT !.v = v2]
       ELSE [s EXCEPT !.v = [v1 EXCEPT !.stableFrames = 0, !.countdown = 0]]

\* Variant with a slip: the early return on isCapturing is missing.
HandleFaceDetectionResultUnguarded(s, r) ==
  LET v1 == [s.v EXCEPT !.faceDetected = r.detected,
                        !.faceCentered = r.centered,
                        !.faceFrontal = r.frontal,
                        !.faceProperSize = r.properSize]
  IN IF v1.faceReady
     THEN LET n  == v1.stableFrames + 1
              v2 == [v1 EXCEPT
                       !.stableFrames = n,
                       !.countdown =
                          CeilDiv(REQUIRED_STABLE_FRAMES - n, FRAMES_PER_SECOND)]
          IN IF n >= REQUIRED_STABLE_FRAMES
             THEN HandleTakePhoto([s EXCEPT !.v = [v2 EXCEPT !.countdown = 0]])
             ELSE [s EXCEPT !.v = v2]
     ELSE [s EXCEPT !.v = [v1 EXCEPT !.stableFrames = 0, !.countdown = 0]]

\* handleFaceDetectionResult: faceReady is read as the last flush left it.
HandleFaceDetectionResult(s, r) ==
  IF s.v.isCapturing THEN s
  ELSE
    LET v1 == [s.v EXCEPT !.faceDetected = r.detected,
                          !.faceCentered = r.centered,
                          !.faceFrontal = r.frontal,
                          !.faceProperSize = r.properSize]
    IN IF v1.faceReady
       THEN LET n  == v1.stableFrames + 1
                v2 == [v1 EXCEPT
                         !.stableFrames = n,
                         !.countdown =
                            CeilDiv(REQUIRED_STABLE_FRAMES - n, FRAMES_PER_SECOND)]
            IN IF n >= REQUIRED_STABLE_FRAMES
               THEN HandleTakePhoto([s EXCEPT !.v = [v2 EXCEPT !.countdown = 0]])
               ELSE [s EXCEPT !.v = v2]
       ELSE [s EXCEPT !.v = [v1 EXCEPT !.stableFrames = 0, !.countdown = 0]]

\* Variant with a slip: the result is delivered without testing isRunning.
FaceRunDetectionDeliverAlways(s, r) ==
  LET k  == s.l.resolving
      s0 == [s EXCEPT !.l.inFlight = @ - 1, !.l.resolving = 0,
                      !.l.pending = Overtake(Settle(@, k), k),
                      !.l.outOfOrder = @ \/ s.l.pending[k]]
      s1 == HandleFaceDetectionResult([s0 EXCEPT !.fired = TRUE], r)
  IN [s1 EXCEPT !.l.timeoutId = TRUE, !.l.timer = TRUE]

\* Variant with a slip: the result is delivered and no next tick is set.
FaceRunDetectionOneShot(s, r) ==
  LET k  == s.l.resolving
      s0 == [s EXCEPT !.l.inFlight = @ - 1, !.l.resolving = 0,
                      !.l.pending = Settle(@, k)]
  IN IF s0.l.isRunning
     THEN HandleFaceDetectionResult(
            [s0 EXCEPT !.fired = TRUE,
                       !.l.pending = Overtake(@, k),
                       !.l.outOfOrder = @ \/ s.l.pending[k]], r)
     ELSE s0

\* runDetection after its await, face loop:
\*   if (isRunning) { onResult(result); timeoutId = setTimeout(...) }
\* isRunning is tested once, before onResult; setTimeout follows onResult
\* without a second test.
FaceRunDetectionResume(s, r) ==
  LET k  == s.l.resolving
      s0 == [s EXCEPT !.l.inFlight = @ - 1, !.l.resolving = 0,
                      !.l.pending = Settle(@, k)]
  IN IF s0.l.isRunning
     THEN LET d  == [s0 EXCEPT !.fired = TRUE,
                               !.l.pending = Overtake(@, k),
                               !.l.outOfOrder = @ \/ s.l.pending[k]]
              s1 == HandleFaceDetectionResult(d, r)
          IN [s1 EXCEPT !.l.timeoutId = TRUE, !.l.timer = TRUE]
     ELSE s0

SelfieInit ==
  [faceDetected |-> FALSE, faceCentered |-> FALSE, faceFrontal |-> FALSE,
   faceProperSize |-> FALSE, faceReady |-> FALSE,
   stableFrames |-> 0, countdown |-> 0,
   stopDetectionLoop |-> FALSE, modelsReady |-> FALSE, isCapturing |-> FALSE,
   isDisabled |-> TRUE, cameraPhoto |-> TRUE, video |-> TRUE,
   stream |-> FALSE, pc |-> "camera", destroyed |-> FALSE, captures |-> 0,
   order |-> <<>>]

(***************************************************************************)
(* The document capture view.                                              *)
(***************************************************************************)
DocInit ==
  [documentDetectionResult |-> NoDocument, stopDocumentDetection |-> FALSE,
   isDisabled |-> TRUE, cameraPhoto |-> TRUE, video |-> TRUE,
   stream |-> FALSE, pc |-> "camera", destroyed |-> FALSE, captures |-> 0,
   lateCall |-> FALSE]

\* Variant with a slip: the indicator tests detected only.
DocFeedbackDetectedOnly(d) ==
  IF ~d.stream THEN "none"
  ELSE IF d.documentDetectionResult.detected THEN "Document detected"
  ELSE "Position document in frame"

\* the detection indicator of the template, rendered once stream is set
DocFeedback(d) ==
  IF ~d.stream THEN "none"
  ELSE IF d.documentDetectionResult.detected /\ d.documentDetectionResult.confidence
  THEN "Document detected"
  ELSE IF d.documentDetectionResult.detected THEN "Move closer to document"
  ELSE "Position document in frame"

\* isDisabled={$isDisabled || !documentDetectionResult.detected}
DocButtonDisabled(d) ==
  d.isDisabled \/ ~d.documentDetectionResult.detected

\* runDetection after its await, document loop; onResult is
\*   result => { documentDetectionResult = result }
DocRunDetectionResume(d, ls, r) ==
  LET k  == ls.resolving
      l0 == [ls EXCEPT !.inFlight = @ - 1, !.resolving = 0,
                       !.pending = Settle(@, k)]
  IN IF l0.isRunning
     THEN [d |-> [d EXCEPT !.documentDetectionResult = r],
           l |-> [l0 EXCEPT !.pending = Overtake(@, k),
                            !.outOfOrder = @ \/ ls.pending[k],
                            !.timeoutId = TRUE, !.timer = TRUE],
           fired |-> TRUE]
     ELSE [d |-> d, l |-> l0, fired |-> FALSE]

\* Variant with a slip: $isDisabled is not tested.
DocHandleTakePhotoUnguarded(d) ==
  IF ~d.cameraPhoto THEN d
  ELSE [d EXCEPT !.isDisabled = TRUE, !.captures = @ + 1]

\* handleTakePhoto of the document view; the history field captures counts
\* the runs of getDataUri and of the storing of the document
DocHandleTakePhoto(d) ==
  IF ~d.cameraPhoto \/ d.isDisabled THEN d
  ELSE [d EXCEPT !.isDisabled = TRUE, !.captures = @ + 1]

(***************************************************************************)
(* validateDocumentImage.  A call creates an Image, sets its src and       *)
(* returns a promise; onload runs one detectDocument pass on the image and *)
(* resolves with its result, onerror resolves with the not-detected        *)
(* result.  Each caller of the model makes one call.  A still image is a   *)
(* fixed data URI: whether it loads and what a scan of it finds belong to  *)
(* the image.                                                              *)
(***************************************************************************)
NumCallers == 2

NumImages == 2

Callers == 1 .. NumCallers

Images == 1 .. NumImages

\* The history fields of a call: passes, the detectDocument passes it has
\* started; resolves, how often its promise has been resolved.
NoCall ==
  [st |-> "idle", img |-> 0, outcome |-> NoDocument, passes |-> 0,
   resolves |-> 0]

\* The still images a call can be given.
StillImages ==
  {im \in [loads : BOOLEAN, throws : BOOLEAN, scan : DocumentResults] :
     im.throws => im.scan = NoDocument}

\* detectDocument on an Image element: no readyState test; scanDocument runs
\* inside try/catch.
DetectDocumentImage(im) ==
  IF im.throws
  THEN [path |-> "caught", invoked |-> TRUE, result |-> NoDocument]
  ELSE IF ~im.scan.detected
  THEN [path |-> "noDocument", invoked |-> TRUE, result |-> NoDocument]
  ELSE [path |-> "document", invoked |-> TRUE, result |-> im.scan]

\* new Image(); img.onload = ...; img.onerror = ...; img.src = base64Image
ValidateDocumentImage(i) ==
  [st |-> "loading", img |-> i, outcome |-> NoDocument, passes |-> 0,
   resolves |-> 0]

\* img.onload up to its await: detectDocument(img) starts
ValidateOnLoad(c) == [c EXCEPT !.st = "detecting", !.passes = @ + 1]

\* img.onload after its await: resolve(result)
ValidateResolve(c, r) ==
  [c EXCEPT !.st = "resolved", !.outcome = r, !.resolves = @ + 1]

\* img.onerror: resolve({detected: false, corners: null, confidence: false})
\* Variant with a slip: onerror rejects the promise.
ValidateOnErrorRejects(c) == [c EXCEPT !.st = "rejected"]

ValidateOnError(c) ==
  [c EXCEPT !.st = "resolved", !.outcome = NoDocument, !.resolves = @ + 1]

Pending(c) == calls[c].st \in {"loading", "detecting"}

PendingFor(i) == {c \in Callers : Pending(c) /\ calls[c].img = i}

(***************************************************************************)
(* loadFaceDetectionModels.  A call returns true at once when the models   *)
(* are loaded; waits, polling every 100 ms, when a load is in flight; and  *)
(* otherwise performs the load itself.  Each caller of the model makes one *)
(* call.  History fields of a call: path, the branch it took on entry;     *)
(* joined, the caller whose load was in flight when a waiting call was     *)
(* made (0 for the other calls).                                           *)
(***************************************************************************)
NumLoaders == 3

Loaders == 1 .. NumLoaders

NoLoad == [st |-> "idle", result |-> FALSE, path |-> "none", joined |-> 0]

\* Variant with a slip: modelsLoading is not tested on entry.
LoadEnterNoLoadingGuard(m) ==
  IF m.modelsLoaded THEN "done" ELSE "loading"

\* the branch a call takes on entry:
\*   if (modelsLoaded) return true; if (modelsLoading) { wait } ...
LoadEnter(m) ==
  IF m.modelsLoaded THEN "done"
  ELSE IF m.modelsLoading THEN "waiting"
  ELSE "loading"

\* the load settles: modelsLoaded = true (try) or false (catch), then
\* modelsLoading = false (finally)
LoadSettle(m, ok) == [modelsLoaded |-> ok, modelsLoading |-> FALSE]

\* the test of the polling callback: if (modelsLoaded || !modelsLoading)
LoadPollDone(m) == m.modelsLoaded \/ ~m.modelsLoading

\* the callers whose load is in flight
InFlightLoads == {c \in Loaders : loaders[c].st = "loading"}

(***************************************************************************)
(* The check view (CheckDocument.svelte; the check view of the back side   *)
(* has the same code).  image is 0 for the empty string; validated stands  *)
(* for validationResult not being null; call is the view's                 *)
(* validateDocumentImage call.  History fields: started, the calls the     *)
(* view has made; pending, those of them not yet resolved.                 *)
(***************************************************************************)
CheckInit ==
  [image |-> 0, isValidating |-> FALSE, validated |-> FALSE,
   validationResult |-> NoDocument, call |-> NoCall, started |-> 0,
   pending |-> 0]

\* Variant with a slip: the reactive statement does not test isValidating.
CheckReactiveWhilePending(c) ==
  IF c.image # 0 /\ ~c.validated
  THEN [c EXCEPT !.isValidating = TRUE, !.call = ValidateDocumentImage(c.image),
                 !.started = @ + 1, !.pending = @ + 1]
  ELSE c

\* $: if (image && !validationResult && !isValidating) {
\*      isValidating = true; validateDocumentImage(image).then(...) }
CheckReactive(c) ==
  IF c.image # 0 /\ ~c.validated /\ ~c.isValidating
  THEN [c EXCEPT !.isValidating = TRUE, !.call = ValidateDocumentImage(c.image),
                 !.started = @ + 1, !.pending = @ + 1]
  ELSE c

\* the then callback: validationResult = result; isValidating = false;
\* the flush that follows runs the reactive statement again
CheckThen(c, call) ==
  CheckReactive([c EXCEPT !.validationResult = call.outcome,
                          !.validated = TRUE,
                          !.isValidating = FALSE,
                          !.call = call,
                          !.pending = @ - 1])

\* Variant with a slip: success is shown for every detected document.
CheckFeedbackDetectedOnly(c) ==
  IF c.isValidating THEN "validating"
  ELSE IF ~c.validated THEN "none"
  ELSE IF c.validationResult.detected THEN "success"
  ELSE "error"

\* the feedback block of the template
CheckFeedback(c) ==
  IF c.isValidating THEN "validating"
  ELSE IF ~c.validated THEN "none"
  ELSE IF c.validationResult.detected /\ c.validationResult.confidence
  THEN "success"
  ELSE IF c.validationResult.detected THEN "warning"
  ELSE "error"

(***************************************************************************)
(* Initial state: the step flow shows one capture view at a time, the      *)
(* selfie view or the document capture view.  The view is mounted (onMount *)
(* has created cameraPhoto and called startCamera), no loop is created, no *)
(* validation is requested.                                                *)
(***************************************************************************)
Init ==
  /\ views \in {{"face"}, {"doc"}}
  /\ selfie = SelfieInit
  /\ doc = DocInit
  /\ loop = [l \in Loops |-> NoLoop]
  /\ fired = [l \in Loops |-> FALSE]
  /\ discarded = [l \in Loops |-> FALSE]
  /\ trueSuffix = 0
  /\ sawFailing = FALSE
  /\ lateCall = FALSE
  /\ lateResult = FALSE
  /\ calls = [c \in Callers |-> NoCall]
  /\ burst = [i \in Images |-> [passes |-> 0, outcomes |-> {}]]
  /\ images = [i \in Images |->
                 [loads |-> TRUE, throws |-> FALSE, scan |-> NoDocument]]
  /\ check = CheckInit
  /\ faceModels = [modelsLoaded |-> FALSE, modelsLoading |-> FALSE]
  /\ loaders = [c \in Loaders |-> NoLoad]
  /\ probe = NoProbe

NoneFired == [l \in Loops |-> FALSE]

(***************************************************************************)
(* Selfie view: life cycle.                                                *)
(***************************************************************************)
\* startCamera(...).then: stream = cameraStream; toggleOffIsDisabled();
\* initFaceDetection() runs up to its await of loadFaceDetectionModels()
SelfieCameraStarted ==
  /\ "face" \in views
  /\ selfie.pc = "camera"
  /\ selfie' = Flush([selfie EXCEPT !.stream = TRUE, !.isDisabled = FALSE,
                                    !.pc = "models"])
  /\ fired' = NoneFired
  /\ UNCHANGED <<doc, loop, discarded, selfieHist, validateVars>>

\* startCamera(...).catch
SelfieCameraFailed ==
  /\ "face" \in views
  /\ selfie.pc = "camera"
  /\ selfie' = [selfie EXCEPT !.pc = "failed"]
  /\ fired' = NoneFired
  /\ UNCHANGED <<doc, loop, discarded, selfieHist, validateVars>>

\* initFaceDetection after its await: modelsReady = loaded;
\* if (loaded && video) stopDetectionLoop = createFaceDetectionLoop(...)
SelfieModelsLoaded(loaded) ==
  /\ selfie.pc = "models"
  /\ LET start == loaded /\ selfie.video
     IN /\ selfie' = Flush([selfie EXCEPT
                              !.modelsReady = loaded,
                              !.stopDetectionLoop = IF start THEN TRUE ELSE @,
                              !.pc = "idle"])
        /\ loop' = IF start
                   THEN [loop EXCEPT !["face"] =
                           [CreateFaceDetectionLoop EXCEPT !.video = selfie.video]]
                   ELSE loop
  /\ fired' = NoneFired
  /\ UNCHANGED <<doc, discarded, selfieHist, validateVars>>

\* onDestroy: cameraPhoto?.stopCamera(); if (stopDetectionLoop) stopDetectionLoop();
\* the component is torn down and bind:this sets video to null
SelfieDestroy ==
  /\ "face" \in views
  /\ ~selfie.destroyed
  /\ loop' = IF selfie.stopDetectionLoop
             THEN [loop EXCEPT !["face"] = FaceStop(@)]
             ELSE loop
  /\ selfie' = [selfie EXCEPT !.destroyed = TRUE, !.video = FALSE]
  /\ fired' = NoneFired
  /\ UNCHANGED <<doc, discarded, selfieHist, validateVars>>

(***************************************************************************)
(* Face detection loop.                                                    *)
(***************************************************************************)
\* the timer set by runDetection fires: runDetection runs up to its await
FaceTimerFires ==
  /\ loop["face"].timer
  /\ loop' = [loop EXCEPT
                !["face"] = FaceRunDetectionStart([@ EXCEPT !.timer = FALSE])]
  /\ fired' = NoneFired
  /\ UNCHANGED <<selfie, doc, discarded, selfieHist, validateVars>>

\* the detectFace call at position k of the outstanding calls, made on
\* frame f, settles: runDetection runs on from its await.  The loop only
\* exists once the models are loaded.  Were the promise rejected,
\* runDetection would end at its await.
FaceDetectReturns(f) ==
  /\ loop["face"].inFlight > 0
  /\ \E k \in 1 .. Len(loop["face"].pending) :
     LET d == DetectFace(selfie.modelsReady, f)
         r == d.result
         l0 == [loop["face"] EXCEPT !.resolving = k]
         s == IF d.path = "rejected"
              THEN [v |-> selfie,
                    l |-> [l0 EXCEPT !.inFlight = @ - 1, !.resolving = 0,
                                     !.pending = Settle(@, k)],
                    fired |-> FALSE]
              ELSE FaceRunDetectionResume(
                     [v |-> selfie, l |-> l0, fired |-> FALSE], r)
         processed == s.fired /\ ~selfie.isCapturing
     IN /\ selfie' = Flush(s.v)
        /\ loop' = [loop EXCEPT !["face"] =
                      [s.l EXCEPT !.last = [frame |-> f, path |-> d.path,
                                            invoked |-> d.invoked,
                                            result |-> d.result]]]
        /\ fired' = [NoneFired EXCEPT !["face"] = s.fired]
        /\ discarded' = [discarded EXCEPT !["face"] = @ \/ ~s.fired]
        /\ trueSuffix' = IF ~processed THEN trueSuffix
                         ELSE IF FaceReady([faceDetected |-> r.detected,
                                            faceCentered |-> r.centered,
                                            faceFrontal |-> r.frontal,
                                            faceProperSize |-> r.properSize])
                              THEN trueSuffix + 1 ELSE 0
        /\ sawFailing' = (sawFailing \/
                            (processed /\ ~(r.detected /\ r.centered /\
                                            r.frontal /\ r.properSize)))
        /\ lateCall' = (lateCall \/ (s.fired /\ selfie.isCapturing))
        /\ lateResult' = (lateResult \/ (s.fired /\ selfie.isCapturing))
  /\ UNCHANGED <<views, doc, validateVars>>

(***************************************************************************)
(* Document capture view and its loop.                                     *)
(***************************************************************************)
\* startCamera(...).then: stream = cameraStream; toggleOffIsDisabled();
\* stopDocumentDetection = createDocumentDetectionLoop(video, ..., 500)
DocCameraStarted ==
  /\ "doc" \in views
  /\ doc.pc = "camera"
  /\ doc' = [doc EXCEPT !.stream = TRUE, !.isDisabled = FALSE,
                        !.stopDocumentDetection = TRUE, !.pc = "idle"]
  /\ loop' = [loop EXCEPT !["doc"] =
                [CreateDocumentDetectionLoop EXCEPT !.video = doc.video]]
  /\ fired' = NoneFired
  /\ UNCHANGED <<selfie, discarded, selfieHist, validateVars>>

\* startCamera(...).catch
DocCameraFailed ==
  /\ "doc" \in views
  /\ doc.pc = "camera"
  /\ doc' = [doc EXCEPT !.pc = "failed"]
  /\ fired' = NoneFired
  /\ UNCHANGED <<selfie, loop, discarded, selfieHist, validateVars>>

\* onDestroy: stopDocumentDetection?.(); cameraPhoto?.stopCamera()
DocDestroy ==
  /\ "doc" \in views
  /\ ~doc.destroyed
  /\ loop' = IF doc.stopDocumentDetection
             THEN [loop EXCEPT !["doc"] = DocStop(@)]
             ELSE loop
  /\ doc' = [doc EXCEPT !.destroyed = TRUE, !.video = FALSE]
  /\ fired' = NoneFired
  /\ UNCHANGED <<selfie, discarded, selfieHist, validateVars>>

\* a click on the camera button, which the page lets through when the
\* button is not disabled
DocClick ==
  /\ ~doc.destroyed
  /\ ~DocButtonDisabled(doc)
  /\ doc' = DocHandleTakePhoto(doc)
  /\ fired' = NoneFired
  /\ UNCHANGED <<selfie, loop, discarded, selfieHist, validateVars>>

DocTimerFires ==
  /\ loop["doc"].timer
  /\ loop' = [loop EXCEPT
                !["doc"] = DocRunDetectionStart([@ EXCEPT !.timer = FALSE])]
  /\ fired' = NoneFired
  /\ UNCHANGED <<selfie, doc, discarded, selfieHist, validateVars>>

\* the detectDocument call at position k of the outstanding calls, made on
\* frame f, settles
DocDetectReturns(f) ==
  /\ loop["doc"].inFlight > 0
  /\ \E k \in 1 .. Len(loop["doc"].pending) :
     LET d == DetectDocument(loop["doc"].video, f)
         l0 == [loop["doc"] EXCEPT !.resolving = k]
         s == IF d.path = "rejected"
              THEN [d |-> doc,
                    l |-> [l0 EXCEPT !.inFlight = @ - 1, !.resolving = 0,
                                     !.pending = Settle(@, k)],
                    fired |-> FALSE]
              ELSE DocRunDetectionResume(doc, l0, d.result)
     IN /\ doc' = s.d
        /\ loop' = [loop EXCEPT !["doc"] =
                      [s.l EXCEPT !.last = [frame |-> f, path |-> d.path,
                                            invoked |-> d.invoked,
                                            result |-> d.result]]]
        /\ fired' = [NoneFired EXCEPT !["doc"] = s.fired]
        /\ discarded' = [discarded EXCEPT !["doc"] = @ \/ ~s.fired]
  /\ UNCHANGED <<selfie, selfieHist, validateVars>>

(***************************************************************************)
(* The program: both views and their loops.                                *)
(***************************************************************************)
Next ==
  \/ SelfieCameraStarted
  \/ SelfieCameraFailed
  \/ \E loaded \in BOOLEAN : SelfieModelsLoaded(loaded)
  \/ SelfieDestroy
  \/ FaceTimerFires
  \/ \E f \in FaceFrames : FaceDetectReturns(f)
  \/ DocCameraStarted
  \/ DocCameraFailed
  \/ DocDestroy
  \/ DocClick
  \/ DocTimerFires
  \/ \E f \in DocFrames : DocDetectReturns(f)

Spec == Init /\ [][Next]_vars

(***************************************************************************)
(* The program with its scheduling: a timer that is pending fires, and a   *)
(* detector call that is outstanding settles.                              *)
(***************************************************************************)
SpecLive ==
  /\ Init
  /\ [][Next]_vars
  /\ WF_vars(FaceTimerFires)
  /\ WF_vars(\E f \in FaceFrames : FaceDetectReturns(f))
  /\ WF_vars(DocTimerFires)
  /\ WF_vars(\E f \in DocFrames : DocDetectReturns(f))

(***************************************************************************)
(* The stop function of a loop called from outside, at any moment and any  *)
(* number of times up to MaxStopCalls.                                     *)
(***************************************************************************)
MaxStopCalls == 2

\* Variant with a slip: isRunning is one flag shared by all loops.
CallStopShared(l) ==
  /\ loop[l].created
  /\ loop[l].stopCalls < MaxStopCalls
  /\ loop' = [m \in Loops |->
               IF m = "face" THEN FaceStop(loop[m]) ELSE DocStop(loop[m])]
  /\ fired' = NoneFired
  /\ UNCHANGED <<selfie, doc, discarded, selfieHist, validateVars>>

CallStop(l) ==
  /\ loop[l].created
  /\ loop[l].stopCalls < MaxStopCalls
  /\ loop' = [loop EXCEPT ![l] = IF l = "face" THEN FaceStop(@) ELSE DocStop(@)]
  /\ fired' = NoneFired
  /\ UNCHANGED <<selfie, doc, discarded, selfieHist, validateVars>>

NextStop ==
  \/ Next
  \/ \E l \in Loops : CallStop(l)

SpecStop == Init /\ [][NextStop]_vars

(***************************************************************************)
(* The handlers of a live selfie view called directly, as a result or a    *)
(* trigger that arrives outside the loop's own delivery.                   *)
(***************************************************************************)
CallHandleFaceDetectionResult(r) ==
  /\ loop["face"].created
  /\ ~selfie.destroyed
  /\ LET s == HandleFaceDetectionResult(
                [v |-> selfie, l |-> loop["face"], fired |-> FALSE], r)
         processed == ~selfie.isCapturing
     IN /\ selfie' = Flush(s.v)
        /\ loop' = [loop EXCEPT !["face"] = s.l]
        /\ trueSuffix' = IF ~processed THEN trueSuffix
                         ELSE IF r.detected /\ r.centered /\ r.frontal /\ r.properSize
                              THEN trueSuffix + 1 ELSE 0
        /\ sawFailing' = (sawFailing \/
                            (processed /\ ~(r.detected /\ r.centered /\
                                            r.frontal /\ r.properSize)))
        /\ lateCall' = (lateCall \/ selfie.isCapturing)
        /\ lateResult' = (lateResult \/ selfie.isCapturing)
  /\ fired' = NoneFired
  /\ UNCHANGED <<views, doc, discarded, validateVars>>

CallHandleTakePhoto ==
  /\ loop["face"].created
  /\ ~selfie.destroyed
  /\ LET s == HandleTakePhoto([v |-> selfie, l |-> loop["face"], fired |-> FALSE])
     IN /\ selfie' = Flush(s.v)
        /\ loop' = [loop EXCEPT !["face"] = s.l]
  /\ lateCall' = (lateCall \/ selfie.isCapturing)
  /\ fired' = NoneFired
  /\ UNCHANGED <<views, doc, discarded, trueSuffix, sawFailing, lateResult,
                 validateVars>>

\* handleTakePhoto of a live document view called whatever the state of the
\* button; the history field lateCall records a call made after a capture
CallDocHandleTakePhoto ==
  /\ "doc" \in views
  /\ ~doc.destroyed
  /\ doc' = [DocHandleTakePhoto(doc) EXCEPT !.lateCall = @ \/ doc.captures > 0]
  /\ fired' = NoneFired
  /\ UNCHANGED <<selfie, loop, discarded, selfieHist, validateVars>>

NextCalls ==
  \/ Next
  \/ \E r \in FaceResults : CallHandleFaceDetectionResult(r)
  \/ CallHandleTakePhoto
  \/ CallDocHandleTakePhoto

SpecCalls == Init /\ [][NextCalls]_vars

(***************************************************************************)
(* Callers of validateDocumentImage.                                       *)
(***************************************************************************)
InitValidate ==
  /\ views = {}
  /\ selfie = SelfieInit
  /\ doc = DocInit
  /\ loop = [l \in Loops |-> NoLoop]
  /\ fired = [l \in Loops |-> FALSE]
  /\ discarded = [l \in Loops |-> FALSE]
  /\ trueSuffix = 0
  /\ sawFailing = FALSE
  /\ lateCall = FALSE
  /\ lateResult = FALSE
  /\ calls = [c \in Callers |-> NoCall]
  /\ burst = [i \in Images |-> [passes |-> 0, outcomes |-> {}]]
  /\ images \in [Images -> StillImages]
  /\ check = CheckInit
  /\ faceModels = [modelsLoaded |-> FALSE, modelsLoading |-> FALSE]
  /\ loaders = [c \in Loaders |-> NoLoad]
  /\ probe = NoProbe

loopVars == <<selfie, doc, loop, fired, discarded, selfieHist, loadVars>>

\* caller c calls validateDocumentImage(image i)
ValidateCalled(c, i) ==
  /\ calls[c].st = "idle"
  /\ calls' = [calls EXCEPT ![c] = ValidateDocumentImage(i)]
  /\ burst' = IF PendingFor(i) = {}
              THEN [burst EXCEPT ![i] = [passes |-> 0, outcomes |-> {}]]
              ELSE burst
  /\ UNCHANGED <<loopVars, images, check>>

\* the image of call c loads: onload starts its detectDocument pass
ValidateImageLoads(c) ==
  /\ calls[c].st = "loading"
  /\ images[calls[c].img].loads
  /\ calls' = [calls EXCEPT ![c] = ValidateOnLoad(@)]
  /\ burst' = [burst EXCEPT ![calls[c].img].passes = @ + 1]
  /\ UNCHANGED <<loopVars, images, check>>

\* the image of call c fails to load
ValidateImageFails(c) ==
  /\ calls[c].st = "loading"
  /\ ~images[calls[c].img].loads
  /\ calls' = [calls EXCEPT ![c] = ValidateOnError(@)]
  /\ burst' = [burst EXCEPT ![calls[c].img].outcomes = @ \cup {calls'[c].outcome}]
  /\ UNCHANGED <<loopVars, images, check>>

\* the detectDocument pass of call c resolves
ValidateDetectReturns(c) ==
  /\ calls[c].st = "detecting"
  /\ calls' = [calls EXCEPT ![c] = ValidateResolve(
                                     @, DetectDocumentImage(images[calls[c].img]).result)]
  /\ burst' = [burst EXCEPT ![calls[c].img].outcomes = @ \cup {calls'[c].outcome}]
  /\ UNCHANGED <<loopVars, images, check>>

NextValidate ==
  \/ \E c \in Callers, i \in Images : ValidateCalled(c, i)
  \/ \E c \in Callers : ValidateImageLoads(c)
  \/ \E c \in Callers : ValidateImageFails(c)
  \/ \E c \in Callers : ValidateDetectReturns(c)

SpecValidate == InitValidate /\ [][NextValidate]_vars

(***************************************************************************)
(* The check view on its own.  The view is created on a stored image, or   *)
(* on none; the first run of its reactive statements reads the image and   *)
(* starts the validation.                                                  *)
(***************************************************************************)
InitCheck ==
  /\ views = {}
  /\ selfie = SelfieInit
  /\ doc = DocInit
  /\ loop = [l \in Loops |-> NoLoop]
  /\ fired = [l \in Loops |-> FALSE]
  /\ discarded = [l \in Loops |-> FALSE]
  /\ trueSuffix = 0
  /\ sawFailing = FALSE
  /\ lateCall = FALSE
  /\ lateResult = FALSE
  /\ calls = [c \in Callers |-> NoCall]
  /\ burst = [i \in Images |-> [passes |-> 0, outcomes |-> {}]]
  /\ images \in [Images -> StillImages]
  /\ \E i \in 0 .. NumImages :
       check = CheckReactive([CheckInit EXCEPT !.image = i])
  /\ faceModels = [modelsLoaded |-> FALSE, modelsLoading |-> FALSE]
  /\ loaders = [c \in Loaders |-> NoLoad]
  /\ probe = NoProbe

\* $documents changes: image = getDocImage(documentType, $documents), then
\* the reactive statement on image runs
CheckDocumentsChange(i) ==
  /\ i # check.image
  /\ check' = CheckReactive([check EXCEPT !.image = i])
  /\ UNCHANGED <<loopVars, calls, burst, images>>

\* the image of the view's call loads: onload starts its detectDocument pass
CheckImageLoads ==
  /\ check.call.st = "loading"
  /\ images[check.call.img].loads
  /\ check' = [check EXCEPT !.call = ValidateOnLoad(@)]
  /\ UNCHANGED <<loopVars, calls, burst, images>>

\* the image fails to load: the promise resolves and the then callback runs
CheckImageFails ==
  /\ check.call.st = "loading"
  /\ ~images[check.call.img].loads
  /\ check' = CheckThen(check, ValidateOnError(check.call))
  /\ UNCHANGED <<loopVars, calls, burst, images>>

\* the detectDocument pass resolves: the promise resolves and the then
\* callback runs
CheckDetectReturns ==
  /\ check.call.st = "detecting"
  /\ check' = CheckThen(check,
                        ValidateResolve(
                          check.call,
                          DetectDocumentImage(images[check.call.img]).result))
  /\ UNCHANGED <<loopVars, calls, burst, images>>

NextCheck ==
  \/ \E i \in 0 .. NumImages : CheckDocumentsChange(i)
  \/ CheckImageLoads
  \/ CheckImageFails
  \/ CheckDetectReturns

SpecCheck == InitCheck /\ [][NextCheck]_vars

(***************************************************************************)
(* Two loops at the same time: a page that has both capture views mounted, *)
(* each with its own loop, and a stop function called from outside.  The   *)
(* frames shown to the face loop are those without a face and the one with *)
(* a face that meets every criterion, so that the two loops' states stay   *)
(* enumerable together.                                                    *)
(***************************************************************************)
BothFaceFrames ==
  {f \in FaceFrames :
     f.scan # "face" \/ (f.centered /\ f.frontal /\ f.properSize)}

InitBoth ==
  /\ views = Loops
  /\ selfie = SelfieInit
  /\ doc = DocInit
  /\ loop = [l \in Loops |-> NoLoop]
  /\ fired = [l \in Loops |-> FALSE]
  /\ discarded = [l \in Loops |-> FALSE]
  /\ trueSuffix = 0
  /\ sawFailing = FALSE
  /\ lateCall = FALSE
  /\ lateResult = FALSE
  /\ calls = [c \in Callers |-> NoCall]
  /\ burst = [i \in Images |-> [passes |-> 0, outcomes |-> {}]]
  /\ images = [i \in Images |->
                 [loads |-> TRUE, throws |-> FALSE, scan |-> NoDocument]]
  /\ check = CheckInit
  /\ faceModels = [modelsLoaded |-> FALSE, modelsLoading |-> FALSE]
  /\ loaders = [c \in Loaders |-> NoLoad]
  /\ probe = NoProbe

NextBoth ==
  \/ SelfieCameraStarted
  \/ SelfieModelsLoaded(TRUE)
  \/ FaceTimerFires
  \/ \E f \in BothFaceFrames : FaceDetectReturns(f)
  \/ DocCameraStarted
  \/ DocTimerFires
  \/ \E f \in DocFrames : DocDetectReturns(f)
  \/ \E l \in Loops : CallStop(l)

SpecBoth == InitBoth /\ [][NextBoth]_vars

(***************************************************************************)
(* Callers of loadFaceDetectionModels, at any moment.                      *)
(***************************************************************************)
InitLoad ==
  /\ views = {}
  /\ selfie = SelfieInit
  /\ doc = DocInit
  /\ loop = [l \in Loops |-> NoLoop]
  /\ fired = [l \in Loops |-> FALSE]
  /\ discarded = [l \in Loops |-> FALSE]
  /\ trueSuffix = 0
  /\ sawFailing = FALSE
  /\ lateCall = FALSE
  /\ lateResult = FALSE
  /\ calls = [c \in Callers |-> NoCall]
  /\ burst = [i \in Images |-> [passes |-> 0, outcomes |-> {}]]
  /\ images = [i \in Images |->
                 [loads |-> TRUE, throws |-> FALSE, scan |-> NoDocument]]
  /\ check = CheckInit
  /\ faceModels = [modelsLoaded |-> FALSE, modelsLoading |-> FALSE]
  /\ loaders = [c \in Loaders |-> NoLoad]
  /\ probe = NoProbe

otherVars ==
  <<views, selfie, doc, loop, fired, discarded, trueSuffix, sawFailing,
    lateCall, lateResult, calls, burst, images, check>>

\* caller c calls loadFaceDetectionModels(): the call runs up to its return,
\* its wait or its await
LoadCalled(c) ==
  /\ loaders[c].st = "idle"
  /\ LET path == LoadEnter(faceModels)
     IN /\ loaders' = [loaders EXCEPT ![c] =
                         [st |-> path, result |-> (path = "done"), path |-> path,
                          joined |-> IF path = "waiting"
                                     THEN CHOOSE d \in InFlightLoads : TRUE
                                     ELSE 0]]
        /\ faceModels' = IF path = "loading"
                         THEN [faceModels EXCEPT !.modelsLoading = TRUE]
                         ELSE faceModels
  /\ UNCHANGED <<probe, otherVars>>

\* the Promise.all of the two loadFromUri calls of caller c settles
LoadSettles(c, ok) ==
  /\ loaders[c].st = "loading"
  /\ faceModels' = LoadSettle(faceModels, ok)
  /\ loaders' = [loaders EXCEPT ![c].st = "done", ![c].result = ok]
  /\ UNCHANGED <<probe, otherVars>>

\* the 100 ms interval of waiting caller c fires and finds the wait over;
\* a tick that finds the load still in flight changes nothing
LoadPollResolves(c) ==
  /\ loaders[c].st = "waiting"
  /\ LoadPollDone(faceModels)
  /\ loaders' = [loaders EXCEPT ![c].st = "done",
                                ![c].result = faceModels.modelsLoaded]
  /\ UNCHANGED <<faceModels, probe, otherVars>>

NextLoad ==
  \/ \E c \in Loaders : LoadCalled(c)
  \/ \E c \in Loaders, ok \in BOOLEAN : LoadSettles(c, ok)
  \/ \E c \in Loaders : LoadPollResolves(c)

SpecLoad == InitLoad /\ [][NextLoad]_vars

(***************************************************************************)
(* The detectors called directly, at any moment of the loading of the      *)
(* models: detectFace on any frame, detectDocument on a video element, on  *)
(* null and on any still image.                                            *)
(***************************************************************************)
DetectFaceCalled(f) ==
  /\ LET d == DetectFace(faceModels.modelsLoaded, f)
     IN probe' = [fn |-> "detectFace", path |-> d.path, result |-> d.result]
  /\ UNCHANGED <<faceModels, loaders, otherVars>>

DetectDocumentCalled(video, f) ==
  /\ LET d == DetectDocument(video, f)
     IN probe' = [fn |-> "detectDocument", path |-> d.path, result |-> d.result]
  /\ UNCHANGED <<faceModels, loaders, otherVars>>

DetectDocumentImageCalled(im) ==
  /\ LET d == DetectDocumentImage(im)
     IN probe' = [fn |-> "detectDocument", path |-> d.path, result |-> d.result]
  /\ UNCHANGED <<faceModels, loaders, otherVars>>

NextDetect ==
  \/ NextLoad
  \/ \E f \in FaceFrames : DetectFaceCalled(f)
  \/ \E video \in BOOLEAN, f \in DocFrames : DetectDocumentCalled(video, f)
  \/ \E im \in StillImages : DetectDocumentImageCalled(im)

SpecDetect == InitLoad /\ [][NextDetect]_vars

(***************************************************************************)
(* Properties.                                                             *)
(***************************************************************************)
\* what onResult of loop l feeds
FedBy(l) ==
  IF l = "face"
  THEN <<selfie.faceDetected, selfie.faceCentered, selfie.faceFrontal,
         selfie.faceProperSize, selfie.stableFrames, selfie.countdown,
         selfie.isCapturing, selfie.captures>>
  ELSE <<doc.documentDetectionResult>>

Stopped(l) == loop[l].stopCalls > 0

\* C1: hard reset law.  While the capture has not fired, stableFrames is the
\* length of the longest suffix of the processed results in which every
\* result has detected, centered, frontal and properSize all true.
C1_HardResetLaw ==
  ~selfie.isCapturing => selfie.stableFrames = trueSuffix

\* C2: in a stream whose every result is all-true, the capture fires while
\* the 20th result is processed: not on results 1..19, not later than 20.
C2_FiresOnTwentiethResult ==
  ~sawFailing => (selfie.isCapturing <=> trueSuffix >= REQUIRED_STABLE_FRAMES)

\* C3: the capture action (getDataUri, then goToNextStep) of one selfie view
\* runs at most once, whatever results and calls arrive, also after it fired.
C3_CaptureAtMostOnce ==
  selfie.captures <= 1

C3_Witness ==
  selfie.captures = 1 /\ lateCall

\* C4: one loop never has two detector calls outstanding.
C4_OneDetectorCallAtATime ==
  \A l \in Loops : loop[l].inFlight <= 1

C4_Witness ==
  \E l \in Loops : loop[l].inFlight = 1 /\ loop[l].timeoutId

\* C5: once stop has been called, onResult of that loop is not called again
\* and what onResult feeds does not change, also for the result of a
\* detector call that was in flight when stop was called.
C5_StopSuppressesDelivery ==
  [][\A l \in Loops :
       Stopped(l) => (~fired'[l] /\ FedBy(l)' = FedBy(l))]_vars

C5_Witness ==
  \E l \in Loops : Stopped(l) /\ discarded[l] /\ loop[l].inFlight = 0

\* C6: once stop has been called, the loop starts no further detector call.
C6_NoDetectorCallAfterStop ==
  [][\A l \in Loops :
       Stopped(l) => loop'[l].inFlight <= loop[l].inFlight]_vars

C6_Witness ==
  /\ "face" \in views
  /\ Stopped("face")
  /\ selfie.isCapturing
  /\ loop["face"].inFlight = 0
  /\ ~loop["face"].timer

\* C7: once stop has been called, no timer for a next tick of that loop is
\* pending, also when stop was called from inside onResult.
C7_NoTimerAfterStop ==
  \A l \in Loops : Stopped(l) => ~loop[l].timer

C9_OnePassForOverlappingCalls ==
  \A i \in Images :
    burst[i].passes <= 1 /\ Cardinality(burst[i].outcomes) <= 1

\* C10: the capture button of the document view is enabled only while the
\* latest detection result has detected and confidence both true.
C10_ButtonNeedsComposite ==
  ~DocButtonDisabled(doc) =>
     (doc.documentDetectionResult.detected /\ doc.documentDetectionResult.confidence)

\* C11: a capture takes its steps in one order: isCapturing is set first,
\* then the loop is stopped, then the image is taken (getDataUri) and the
\* flow advances (goToNextStep); the image is never taken with isCapturing
\* still false.
C11_CaptureStepOrder ==
  /\ selfie.order \in {<<>>,
                       <<"isCapturing", "stop", "getDataUri", "goToNextStep">>,
                       <<"isCapturing", "getDataUri", "goToNextStep">>}
  /\ selfie.captures > 0 => selfie.isCapturing

C11_Witness ==
  /\ selfie.order = <<"isCapturing", "stop", "getDataUri", "goToNextStep">>
  /\ loop["face"].stopCalls = 1
  /\ selfie.captures = 1

\* C12: a result handed to handleFaceDetectionResult while isCapturing is
\* true changes nothing: the four flags, stableFrames and countdown keep
\* their values, and handleTakePhoto does not run (the view, its captures
\* and the loop are as before).
C12_ResultIgnoredWhileCapturing ==
  [][\A r \in FaceResults :
       (selfie.isCapturing /\ CallHandleFaceDetectionResult(r))
         => (selfie' = selfie /\ loop' = loop)]_vars

C12_Witness ==
  selfie.isCapturing /\ lateResult /\ selfie.captures = 1

\* C13: countdown is a function of stableFrames: for a count c in 1..19 it is
\* the least whole number of seconds covering the (20 - c) frames still
\* missing at 4 frames per second (2 at c = 15); it is 0 at c = 20 and when
\* the streak is reset to 0.
C13_CountdownFromStableFrames ==
  LET c == selfie.stableFrames
      k == selfie.countdown
  IN /\ REQUIRED_STABLE_FRAMES = 20 /\ FRAMES_PER_SECOND = 4
     /\ c \in 1 .. 19 => (4 * k >= 20 - c /\ 4 * (k - 1) < 20 - c)
     /\ c = 15 => k = 2
     /\ c \in {0, 20} => k = 0

C13_Witness ==
  selfie.stableFrames = 15 /\ selfie.countdown = 2 /\ fired["face"]

\* the not-detected result of the detector of loop l
NotDetected(l) == IF l = "face" THEN NoFace ELSE NoDocument

\* a detector call of loop l has settled
Polled(l) == loop[l].last.path # "none"

\* C14: a detector call that meets a video whose readyState is not 4 does
\* not call the library (faceapi.detectSingleFace, scanDocument), resolves
\* with the not-detected result, and the loop that delivers it has the next
\* tick scheduled.
C14_NotReadyFrameSkipsDetector ==
  \A l \in Loops :
    (Polled(l) /\ loop[l].video /\ ~loop[l].last.frame.ready)
      => /\ ~loop[l].last.invoked
         /\ loop[l].last.result = NotDetected(l)
         /\ fired[l] => loop[l].timer

C14_Witness ==
  /\ Polled("face")
  /\ ~loop["face"].last.frame.ready
  /\ fired["face"]
  /\ loop["face"].timer
  /\ loop["face"].isRunning

\* C15: an exception of the library call is turned into the not-detected
\* result, which is delivered like any other; a loop that has not been
\* stopped has discarded no result and always has a detector call
\* outstanding or its next tick scheduled.
C15_DetectorExceptionKeepsLoopPolling ==
  \A l \in Loops :
    /\ (Polled(l) /\ loop[l].last.invoked /\ loop[l].last.frame.scan = "throws")
         => /\ loop[l].last.path = "caught"
            /\ loop[l].last.result = NotDetected(l)
    /\ (loop[l].created /\ ~Stopped(l))
         => /\ ~discarded[l]
            /\ loop[l].inFlight = 1 \/ loop[l].timer

C15_Witness ==
  /\ Polled("doc")
  /\ loop["doc"].last.frame.scan = "throws"
  /\ loop["doc"].last.invoked
  /\ fired["doc"]
  /\ doc.documentDetectionResult = NoDocument
  /\ loop["doc"].timer
  /\ ~Stopped("doc")

\* C16: per loop, results are delivered in the order their detector calls
\* were started, each call's result at most once (a delivery settles one
\* outstanding call), and a call starts only when no earlier call is
\* outstanding.
C16_ResultsInCallOrder ==
  [][\A l \in Loops :
       /\ ~loop'[l].outOfOrder
       /\ loop'[l].inFlight > loop[l].inFlight => loop[l].inFlight = 0
       /\ fired'[l] => loop'[l].inFlight = loop[l].inFlight - 1]_vars

C16_Witness ==
  /\ trueSuffix >= 2
  /\ fired["face"]
  /\ loop["face"].pending = <<>>
  /\ ~loop["face"].outOfOrder

\* the view that loop l feeds has been destroyed
ViewDestroyed(l) == IF l = "face" THEN selfie.destroyed ELSE doc.destroyed

\* C17: once a capture view has been destroyed, no loop started on its
\* behalf is running, whenever the destruction happens: before the camera
\* is ready, while the models load, or later.
C17_NoLoopRunsForDestroyedView ==
  \A l \in Loops : ViewDestroyed(l) => ~loop[l].isRunning

\* C18: once a validation result exists and no validation is pending, the
\* check view shows exactly one of success, warning and failure: success
\* iff detected and confidence, warning iff detected without confidence,
\* failure iff not detected.
C18_FeedbackFromValidationResult ==
  (check.validated /\ ~check.isValidating) =>
    LET r == check.validationResult
        shown == CheckFeedback(check)
    IN /\ shown \in {"success", "warning", "error"}
       /\ shown = "success" <=> (r.detected /\ r.confidence)
       /\ shown = "warning" <=> (r.detected /\ ~r.confidence)
       /\ shown = "error" <=> ~r.detected

C18_Witness ==
  /\ check.validated
  /\ ~check.isValidating
  /\ check.call.st = "resolved"
  /\ check.validationResult.detected
  /\ ~check.validationResult.confidence
  /\ CheckFeedback(check) = "warning"

\* C19: a call of the stop function of one loop leaves the other loop as it
\* was (running or not, its timer, its outstanding call) and changes nothing
\* of what the other loop feeds; while one loop is stopped, the other, if
\* not stopped itself, is running with a call outstanding or its next tick
\* scheduled.
C19_LoopsIndependent ==
  [][\A l \in Loops : \A m \in Loops \ {l} :
       /\ loop'[l].stopCalls > loop[l].stopCalls
            => (loop'[m] = loop[m] /\ FedBy(m)' = FedBy(m))
       /\ (loop'[l].stopCalls > 0 /\ loop'[m].created /\ loop'[m].stopCalls = 0)
            => /\ loop'[m].isRunning
               /\ loop'[m].inFlight = 1 \/ loop'[m].timer]_vars

C19_Witness ==
  /\ Stopped("face")
  /\ loop["face"].last.path # "none"
  /\ ~Stopped("doc")
  /\ loop["doc"].isRunning
  /\ fired["doc"]
  /\ doc.documentDetectionResult.detected

\* C20: the handler call in which the capture fires, and every handler call
\* in which stableFrames increases, processes a result with detected,
\* centered, frontal and properSize all true (the flags after the call are
\* the result the call was given).
C20_CaptureOnlyOnPassingResult ==
  [][/\ selfie'.captures > selfie.captures => FaceReady(selfie')
     /\ selfie'.stableFrames > selfie.stableFrames => FaceReady(selfie')]_vars

\* C21: the promise of a validateDocumentImage call is never rejected and
\* is resolved at most once; a call runs no detectDocument pass when its
\* image fails to load and one pass when it loads; it resolves to the
\* not-detected result when the image fails to load or scanDocument throws.
C21_ValidateNeverRejects ==
  \A c \in Callers :
    LET call == calls[c]
        im == images[call.img]
    IN /\ call.st # "rejected"
       /\ call.resolves <= 1
       /\ call.passes <= 1
       /\ call.st = "resolved" =>
            /\ call.resolves = 1
            /\ call.passes = (IF im.loads THEN 1 ELSE 0)
            /\ (~im.loads \/ im.throws) => call.outcome = NoDocument

C21_Witness ==
  \E c, d \in Callers :
    /\ calls[c].st = "resolved" /\ ~images[calls[c].img].loads
    /\ calls[d].st = "resolved" /\ images[calls[d].img].loads
    /\ images[calls[d].img].throws
    /\ calls[d].outcome = NoDocument

\* C22: while the document capture view shows its detection indicator, the
\* text is a function of the latest detection result: 'Document detected'
\* iff detected and confidence, 'Move closer to document' iff detected
\* without confidence, 'Position document in frame' iff not detected.
C22_LiveFeedbackFromLatestResult ==
  (doc.stream /\ ~doc.destroyed) =>
    LET r == doc.documentDetectionResult
        shown == DocFeedback(doc)
    IN /\ shown = "Document detected" <=> (r.detected /\ r.confidence)
       /\ shown = "Move closer to document" <=> (r.detected /\ ~r.confidence)
       /\ shown = "Position document in frame" <=> ~r.detected
       /\ fired["doc"] => r = loop["doc"].last.result

C22_Witness ==
  /\ doc.stream
  /\ ~doc.destroyed
  /\ fired["doc"]
  /\ doc.documentDetectionResult.detected
  /\ ~doc.documentDetectionResult.confidence
  /\ DocFeedback(doc) = "Move closer to document"

\* C23: a check view has at most one validateDocumentImage call pending,
\* and once validationResult is set it keeps its value, however often the
\* reactive statement runs again.
C23_ValidatedOnce ==
  /\ [](check.pending <= 1)
  /\ [][check.validated =>
          /\ check'.validated
          /\ check'.validationResult = check.validationResult
          /\ check'.started = check.started]_vars

C23_Witness ==
  /\ check.validated
  /\ check.started = 1
  /\ check.pending = 0
  /\ check.image # check.call.img

\* C24: the validation outcome a check view shows was computed from the
\* image the view holds.
C24_OutcomeOfCurrentImage ==
  (check.validated /\ ~check.isValidating) => check.call.img = check.image

\* the detector call of the face loop that settled last found a face that
\* is centered, frontal and of proper size
LastAllTrue ==
  /\ Polled("face")
  /\ loop["face"].last.result.detected
  /\ loop["face"].last.result.centered
  /\ loop["face"].last.result.frontal
  /\ loop["face"].last.result.properSize

\* C25: if from some point on the selfie view is mounted with its loop
\* created and every settled detector call has an all-true result, the
\* capture eventually fires.
C25_CaptureEventuallyFires ==
  <>[](loop["face"].created /\ ~selfie.destroyed /\ LastAllTrue)
    => <>(selfie.isCapturing /\ selfie.captures = 1)

C25_Witness ==
  /\ sawFailing
  /\ LastAllTrue
  /\ trueSuffix >= REQUIRED_STABLE_FRAMES
  /\ selfie.isCapturing
  /\ selfie.captures = 1
  /\ ~selfie.destroyed

\* C26: at most one model load is in flight at any time; once modelsLoaded
\* is true it stays true, no further load is started, and every call made
\* from then on returns true at once.
C26_OneLoadInFlight ==
  /\ [](Cardinality(InFlightLoads) <= 1)
  /\ [][faceModels.modelsLoaded =>
          /\ faceModels'.modelsLoaded
          /\ InFlightLoads' = {}
          /\ \A c \in Loaders :
               (loaders[c].st = "idle" /\ loaders'[c].st # "idle")
                 => (loaders'[c].st = "done" /\ loaders'[c].result)]_vars

C26_Witness ==
  /\ faceModels.modelsLoaded
  /\ \E a, b, c \in Loaders :
       /\ loaders[a].st = "done" /\ loaders[a].path = "loading"
       /\ loaders[b].st = "done" /\ loaders[b].path = "waiting"
       /\ loaders[c].st = "done" /\ loaders[c].path = "done"
       /\ loaders[a].result /\ loaders[b].result /\ loaders[c].result

\* C27: a call made while another call's load was in flight resolves to
\* the boolean that the call performing that load returned.
C27_WaiterGetsLoadersResult ==
  \A c \in Loaders :
    (loaders[c].st = "done" /\ loaders[c].joined # 0)
      => /\ loaders[loaders[c].joined].st = "done"
         /\ loaders[c].result = loaders[loaders[c].joined].result

\* C28: the manual capture of one document view (getDataUri and the storing
\* of the document) runs at most once, however often handleTakePhoto is
\* called; after it isDisabled stays set.
C28_DocCaptureAtMostOnce ==
  /\ doc.captures <= 1
  /\ doc.captures = 1 => doc.isDisabled

C28_Witness ==
  doc.captures = 1 /\ doc.lateCall /\ loop["doc"].isRunning

\* a face result is well formed
WellFormedFace(r) ==
  ~r.detected =>
    (~r.centered /\ ~r.frontal /\ ~r.properSize /\ r.box = "null")

\* a document result is well formed
WellFormedDocument(r) ==
  ~r.detected => (~r.confidence /\ r.corners = "null")

\* C29: every result of detectFace and of detectDocument is well formed:
\* not detected implies every criterion false and the geometry null, on
\* every path (models not loaded, frame not ready, nothing found, exception).
C29_ResultsWellFormed ==
  /\ probe.fn = "detectFace" => WellFormedFace(probe.result)
  /\ probe.fn = "detectDocument" => WellFormedDocument(probe.result)
  /\ probe.path \in {"notLoaded", "notReady", "caught", "noFace", "noDocument"}
       => ~probe.result.detected

C29_Witness ==
  /\ probe.fn = "detectFace"
  /\ probe.path = "caught"
  /\ faceModels.modelsLoaded
  /\ probe.result = NoFace
  /\ \E c \in Loaders : loaders[c].st = "done" /\ ~loaders[c].result

\* C30: in every reachable state of a selfie view stableFrames is within
\* 0 .. REQUIRED_STABLE_FRAMES (20) and countdown within
\* 0 .. COUNTDOWN_SECONDS (5), whatever results arrive and however they
\* reach the handler.
C30_CountersInRange ==
  /\ REQUIRED_STABLE_FRAMES = 20 /\ COUNTDOWN_SECONDS = 5
  /\ selfie.stableFrames \in 0 .. 20
  /\ selfie.countdown \in 0 .. 5

C30_Witness ==
  /\ selfie.stableFrames = REQUIRED_STABLE_FRAMES
  /\ selfie.countdown = 0
  /\ sawFailing
  /\ lateResult

====
